---- MODULE Spec2Model ----
(***************************************************************************)
(* A model of the MAT-file (level 5) decoder of src/src/parse.rs.          *)
(*                                                                         *)
(* A byte slice is a sequence of numbers 0..255.  Every parser of the      *)
(* source is an operator from a slice (and the byte order) to a result     *)
(* record: [st |-> "Ok", rest, val], or an error [st |-> "Error" |         *)
(* "Failure", code, at] (nom's recoverable and unrecoverable errors, `at`  *)
(* the length of the slice the error is positioned at), or                 *)
(* [st |-> "Incomplete"], or [st |-> "Panic"] (an arithmetic overflow in a *)
(* build with overflow checks).                                            *)
(*                                                                         *)
(* Numbers wider than 31 bits do not fit TLC's integers: a u32 is the      *)
(* pair <<hi, lo>> of its 16-bit halves, an i32 is an integer, and a       *)
(* numeric payload element is its bit pattern, most significant byte       *)
(* first.  A String is the sequence of its UTF-8 bytes.                    *)
(***************************************************************************)
EXTENDS Integers, Sequences, FiniteSets, TLC

VARIABLES
    overflow_checks,   \* the build: TRUE panics on integer overflow, FALSE wraps
    input,             \* input[r]: the buffer handed to parse_all in run r
    rest,              \* rest[r]: the slice not yet consumed
    pc,                \* pc[r]: where parse_all stands
    header,            \* header[r]: the result of parse_header
    data_elements,     \* data_elements[r]: the elements many0 has collected
    err,               \* err[r]: the error parse_all returns
    tag_i,             \* the slice handed to parse_data_element_tag
    tag_endianness,    \* and its byte order
    tag_pc,            \* "ready" | "read" | "idle"
    tag_result,        \* what parse_data_element_tag returned
    sub_i,             \* the slice handed to a subelement reader
    sub_args,          \* the reader, its byte order and its other arguments
    sub_pc,            \* "ready" | "read" | "idle"
    sub_result,        \* what the reader returned
    file               \* the logical content the buffers encode

vars == <<overflow_checks, input, rest, pc, header, data_elements, err,
          tag_i, tag_endianness, tag_pc, tag_result,
          sub_i, sub_args, sub_pc, sub_result, file>>

Runs == {1, 2}

Endiannesses == {"Little", "Big"}

(***************************************************************************)
(* Slices and results                                                      *)
(***************************************************************************)
Take(i, n) == SubSeq(i, 1, n)

Drop(i, n) == SubSeq(i, n + 1, Len(i))

Ok(i, v) == [st |-> "Ok", rest |-> i, val |-> v]

Error(code, i) == [st |-> "Error", code |-> code, at |-> Len(i)]

Failure(code, i) == [st |-> "Failure", code |-> code, at |-> Len(i)]

Incomplete == [st |-> "Incomplete"]

Panic == [st |-> "Panic"]

None == [st |-> "None"]

IsOk(r) == r.st = "Ok"

RECURSIVE Reverse(_)
Reverse(s) == IF s = <<>> THEN <<>> ELSE Append(Reverse(Tail(s)), Head(s))

(***************************************************************************)
(* 32-bit unsigned arithmetic on <<hi, lo>> pairs                          *)
(***************************************************************************)
U32Zero == <<0, 0>>

U32Of(n) == <<n \div 65536, n % 65536>>

\* `x as usize` where the value is needed as a count: it fits TLC's
\* integers below 2^31, and no slice of the model is that long.
FitsNat(x) == x[1] < 32768

NatOf(x) == x[1] * 65536 + x[2]

\* x - 1 for x > 0
U32Pred(x) == IF x[2] > 0 THEN <<x[1], x[2] - 1>> ELSE <<x[1] - 1, 65535>>

\* x / m for a small m
U32Div(x, m) == <<x[1] \div m, ((x[1] % m) * 65536 + x[2]) \div m>>

\* x + 1 and x * m, with the carry out of 32 bits
U32Succ(x) ==
    IF x[2] < 65535 THEN [v |-> <<x[1], x[2] + 1>>, ovf |-> FALSE]
    ELSE [v |-> <<(x[1] + 1) % 65536, 0>>, ovf |-> x[1] = 65535]

U32Mul(x, m) ==
    LET lo == x[2] * m
        hi == x[1] * m + (lo \div 65536)
    IN  [v |-> <<hi % 65536, lo % 65536>>, ovf |-> hi >= 65536]

\* a - b, with the borrow out of 32 bits
U32Sub(a, b) ==
    LET lo == a[2] - b[2]
        hi == a[1] - b[1] - (IF lo < 0 THEN 1 ELSE 0)
    IN  [v |-> <<hi % 65536, lo % 65536>>, ovf |-> hi < 0]

U32Less(a, b) == a[1] < b[1] \/ (a[1] = b[1] /\ a[2] < b[2])

(***************************************************************************)
(* nom's primitive readers                                                 *)
(***************************************************************************)
take(i, n) == IF Len(i) < n THEN Incomplete ELSE Ok(Drop(i, n), Take(i, n))

\* take!(n) for a u32 or usize count that may exceed every slice
take_u32(i, n) == IF FitsNat(n) THEN take(i, NatOf(n)) ELSE Incomplete

le_u16(i) == IF Len(i) < 2 THEN Incomplete ELSE Ok(Drop(i, 2), i[2] * 256 + i[1])

swap_bytes(v) == (v % 256) * 256 + (v \div 256)

u32(i, endianness) ==
    IF Len(i) < 4 THEN Incomplete
    ELSE IF endianness = "Big"
         THEN Ok(Drop(i, 4), <<i[1] * 256 + i[2], i[3] * 256 + i[4]>>)
         ELSE Ok(Drop(i, 4), <<i[4] * 256 + i[3], i[2] * 256 + i[1]>>)

SignedByte(b) == IF b >= 128 THEN b - 256 ELSE b

i32(i, endianness) ==
    IF Len(i) < 4 THEN Incomplete
    ELSE IF endianness = "Big"
         THEN Ok(Drop(i, 4), SignedByte(i[1]) * 16777216 + i[2] * 65536 + i[3] * 256 + i[4])
         ELSE Ok(Drop(i, 4), SignedByte(i[4]) * 16777216 + i[3] * 65536 + i[2] * 256 + i[1])

(***************************************************************************)
(* std::str::from_utf8: whether a byte run is well-formed UTF-8            *)
(***************************************************************************)
Cont(b) == b >= 128 /\ b <= 191

\* the length of the well-formed sequence that starts b, 0 when there is none
SequenceLen(b) ==
    LET c == b[1] n == Len(b) IN
    IF c < 128 THEN 1
    ELSE IF c >= 194 /\ c <= 223 /\ n >= 2 /\ Cont(b[2]) THEN 2
    ELSE IF /\ c >= 224 /\ c <= 239 /\ n >= 3
            /\ Cont(b[2]) /\ Cont(b[3])
            /\ (c = 224 => b[2] >= 160)
            /\ (c = 237 => b[2] <= 159) THEN 3
    ELSE IF /\ c >= 240 /\ c <= 244 /\ n >= 4
            /\ Cont(b[2]) /\ Cont(b[3]) /\ Cont(b[4])
            /\ (c = 240 => b[2] >= 144)
            /\ (c = 244 => b[2] <= 143) THEN 4
    ELSE 0

\* ASCII runs are skipped at once; each other sequence is checked in turn
RECURSIVE Utf8Valid(_)
Utf8Valid(b) ==
    IF \A k \in 1..Len(b) : b[k] < 128 THEN TRUE
    ELSE LET j == CHOOSE k \in 1..Len(b) : b[k] >= 128 /\ \A m \in 1..(k - 1) : b[m] < 128
             n == SequenceLen(Drop(b, j - 1))
         IN  n # 0 /\ Utf8Valid(Drop(b, j - 1 + n))

(***************************************************************************)
(* Sequencing: do_parse!(a: p >> b: q >> ...) runs q on what p left and    *)
(* returns the first result that is not Ok                                 *)
(***************************************************************************)
Then(r, f(_)) == IF IsOk(r) THEN f(r) ELSE r

(***************************************************************************)
(* assert and parse_header                                                 *)
(***************************************************************************)
assert(i, v) == IF v THEN Ok(i, <<>>) ELSE Failure("Custom48", i)

\* peek!(count_fixed!(_, pair!(not!(char!('\0')), take!(1)), 4)): each of the
\* first four bytes is there and is not null; nothing is consumed.
HeaderGuardNoCheck(i) == Ok(i, <<>>)

HeaderGuard(i) ==
    IF \E k \in 1..4 : k <= Len(i) /\ i[k] = 0 /\ \A j \in 1..(k - 1) : i[j] # 0
    THEN Error("CountFixed", i)
    ELSE IF Len(i) < 4 THEN Incomplete
    ELSE Ok(i, <<>>)

\* alt!(value!(true, tag!("IM")) | value!(false, tag!("MI")))
EndianMarker(i) ==
    IF Len(i) >= 2 /\ Take(i, 2) = <<73, 77>> THEN Ok(Drop(i, 2), TRUE)
    ELSE IF Len(i) >= 2 /\ Take(i, 2) = <<77, 73>> THEN Ok(Drop(i, 2), FALSE)
    ELSE IF Len(i) < 2 /\ (i = <<>> \/ i[1] \in {73, 77}) THEN Incomplete
    ELSE Error("Alt", i)

\* version.swap_bytes() when the marker says big-endian
FixVersionNoSwap(version, is_little_endian) == version

FixVersion(version, is_little_endian) ==
    IF is_little_endian THEN version ELSE swap_bytes(version)

\* std::str::from_utf8(text).unwrap_or(&"")
HeaderText(text) == IF Utf8Valid(text) THEN text ELSE <<>>

parse_header(i) ==
    Then(HeaderGuard(i), LAMBDA guard :
    Then(take(i, 116), LAMBDA text :
    Then(take(text.rest, 8), LAMBDA ssdo :
    Then(le_u16(ssdo.rest), LAMBDA version :
    Then(EndianMarker(version.rest), LAMBDA is_little_endian :
    Then(assert(is_little_endian.rest,
                FixVersion(version.val, is_little_endian.val) = 256), LAMBDA a :
    Ok(a.rest, [text |-> HeaderText(text.val),
                is_little_endian |-> is_little_endian.val])))))))

(***************************************************************************)
(* DataType, ceil_to_multiple and parse_data_element_tag                   *)
(***************************************************************************)
\* enum DataType: the codes DataType::from_u32 knows
DataTypeCodes == {1, 2, 3, 4, 5, 6, 7, 9, 12, 13, 14, 15, 16, 17, 18}

DataTypeName(c) ==
    CASE c = 1 -> "Int8" [] c = 2 -> "UInt8" [] c = 3 -> "Int16" [] c = 4 -> "UInt16"
      [] c = 5 -> "Int32" [] c = 6 -> "UInt32" [] c = 7 -> "Single" [] c = 9 -> "Double"
      [] c = 12 -> "Int64" [] c = 13 -> "UInt64" [] c = 14 -> "Matrix"
      [] c = 15 -> "Compressed" [] c = 16 -> "Utf8" [] c = 17 -> "Utf16"
      [] c = 18 -> "Utf32"

\* DataType::from_u32 of a u32: Some only for a known code
DataTypeKnown(w) == w[1] = 0 /\ w[2] \in DataTypeCodes

\* .ok_or(nom::Err::Failure(Context::Code(i, Custom(46))))?
UnknownTypeCodeRecoverable(i) == Error("Custom46", i)

UnknownTypeCode(i) == Failure("Custom46", i)

\* ceil_to_multiple(x, multiple): [v, ovf], ovf when (..+1)*multiple leaves u32
ceil_to_multiple(x, multiple) ==
    IF x # U32Zero
    THEN U32Mul(U32Succ(U32Div(U32Pred(x), multiple)).v, multiple)
    ELSE [v |-> U32Zero, ovf |-> FALSE]

\* A tag whose padding was computed in u32 as [v, ovf], after an earlier step
\* that overflowed or not: an overflow panics in a checked build and wraps
\* otherwise.
Tag(i, data_type, byte_size, padding, overflowed, form) ==
    IF (overflowed \/ padding.ovf) /\ overflow_checks THEN Panic
    ELSE Ok(i, [data_type |-> DataTypeName(data_type[2]),
                data_byte_size |-> byte_size,
                padding_byte_size |-> padding.v,
                form |-> form])

\* padding_byte_size: ceil_to_multiple(byte_size, 8) - byte_size
LongPadding(i, data_type, byte_size, ceiled) ==
    Tag(i, data_type, byte_size, U32Sub(ceiled.v, byte_size), ceiled.ovf, "long")

LongTag(i, data_type, byte_size) ==
    LongPadding(i, data_type, byte_size, ceil_to_multiple(byte_size, 8))

\* padding_byte_size: 4 - byte_size as u32
SmallTag(i, data_type, byte_size) ==
    Tag(i, data_type, byte_size, U32Sub(U32Of(4), byte_size), FALSE, "small")

parse_data_element_tag(i, endianness) ==
    Then(u32(i, endianness), LAMBDA peeked :
        IF peeked.val[1] = 0
        THEN \* Long Data Element Format
             Then(u32(peeked.rest, endianness), LAMBDA byte_size :
                 IF ~DataTypeKnown(peeked.val) THEN UnknownTypeCode(i)
                 ELSE LongTag(byte_size.rest, peeked.val, byte_size.val))
        ELSE \* Small Data Element Format
             IF ~DataTypeKnown(<<0, peeked.val[2]>>) THEN UnknownTypeCode(i)
             ELSE SmallTag(peeked.rest, <<0, peeked.val[2]>>, <<0, peeked.val[1]>>))

(***************************************************************************)
(* i32 multiplication on byte limbs (least significant first)              *)
(***************************************************************************)
\* the two's complement bit pattern of an i32
Pattern4(a) ==
    <<a % 256, (a \div 256) % 256, (a \div 65536) % 256, (a \div 16777216) % 256>>

FromPattern4(p) == SignedByte(p[4]) * 16777216 + p[3] * 65536 + p[2] * 256 + p[1]

\* the magnitude of an i32 (2^31 itself is no integer of TLC)
Magnitude(a) ==
    IF a >= 0 THEN Pattern4(a)
    ELSE IF a = -2147483647 - 1 THEN <<0, 0, 0, 128>>
    ELSE Pattern4(-a)

RECURSIVE ColSum(_, _, _, _)
ColSum(a, b, k, j) ==
    IF j > k THEN 0
    ELSE (IF j <= Len(a) /\ k + 1 - j <= Len(b) THEN a[j] * b[k + 1 - j] ELSE 0)
         + ColSum(a, b, k, j + 1)

\* limbs k..n of the product of the limb sequences a and b
RECURSIVE MulLimbs(_, _, _, _, _)
MulLimbs(a, b, k, n, carry) ==
    IF k > n THEN <<>>
    ELSE LET c == ColSum(a, b, k, 1) + carry
         IN  <<c % 256>> \o MulLimbs(a, b, k + 1, n, c \div 256)

RECURSIVE StripZeros(_)
StripZeros(a) ==
    IF a # <<>> /\ a[Len(a)] = 0 THEN StripZeros(Take(a, Len(a) - 1)) ELSE a

\* whether a product of magnitudes, negated or not, is an i32
FitsI32(mag, negative) ==
    \/ Len(mag) < 4
    \/ Len(mag) = 4 /\ mag[4] < 128
    \/ negative /\ mag = <<0, 0, 0, 128>>

\* a * b in i32: the wrapped product, and whether the exact product left i32
MulI32(a, b) ==
    [v |-> FromPattern4(MulLimbs(Pattern4(a), Pattern4(b), 1, 4, 0)),
     ovf |-> ~FitsI32(StripZeros(MulLimbs(Magnitude(a), Magnitude(b), 1, 8, 0)),
                      (a < 0) # (b < 0))]

\* dimensions.iter().product::<i32>(): a fold from 1; an overflowing step panics
\* in a checked build and wraps otherwise
RECURSIVE ProductFrom(_, _)
ProductStep(m, dims) ==
    IF m.ovf /\ overflow_checks THEN Panic ELSE ProductFrom(m.v, dims)

ProductFrom(acc, dims) ==
    IF dims = <<>> THEN [st |-> "Ok", val |-> acc]
    ELSE ProductStep(MulI32(acc, Head(dims)), Tail(dims))

product(dims) == ProductFrom(1, dims)

\* `n as usize` of an i32: sign-extended to 64 bits, <<high word, low word>>
AsUsize(n) == <<IF n < 0 THEN -1 ELSE 0, n>>

\* len == n as usize, for a Vec length
LenIs(len, n) == n >= 0 /\ len = n

(***************************************************************************)
(* ArrayType and the type-compatibility table                              *)
(***************************************************************************)
ArrayTypeName(c) ==
    CASE c = 1 -> "Cell" [] c = 2 -> "Struct" [] c = 3 -> "Object" [] c = 4 -> "Char"
      [] c = 5 -> "Sparse" [] c = 6 -> "Double" [] c = 7 -> "Single" [] c = 8 -> "Int8"
      [] c = 9 -> "UInt8" [] c = 10 -> "Int16" [] c = 11 -> "UInt16" [] c = 12 -> "Int32"
      [] c = 13 -> "UInt32" [] c = 14 -> "Int64" [] c = 15 -> "UInt64"

\* ArrayType::numeric_data_type, as written: Int32 gives UInt32
numeric_data_type(class) == IF class = "Int32" THEN "UInt32" ELSE class

numeric_data_types_are_compatible(array_type, subelement_type) ==
    CASE array_type = "Int8" -> subelement_type \in {"Int8"}
      [] array_type = "UInt8" -> subelement_type \in {"UInt8"}
      [] array_type = "Int16" -> subelement_type \in {"UInt8", "Int16"}
      [] array_type = "UInt16" -> subelement_type \in {"UInt8", "UInt16"}
      [] array_type = "Int32" -> subelement_type \in {"UInt8", "Int16", "UInt16", "Int32"}
      [] array_type = "UInt32" -> subelement_type \in {"UInt8", "Int16", "UInt16", "UInt32"}
      [] array_type = "Int64" ->
            subelement_type \in {"UInt8", "Int16", "UInt16", "Int32", "Int64"}
      [] array_type = "UInt64" ->
            subelement_type \in {"UInt8", "Int16", "UInt16", "Int32", "UInt64"}
      [] array_type = "Single" ->
            subelement_type \in {"UInt8", "Int16", "UInt16", "Int32", "Single"}
      [] array_type = "Double" ->
            subelement_type \in {"UInt8", "Int16", "UInt16", "Int32", "Double"}
      [] OTHER -> FALSE

(***************************************************************************)
(* The subelement readers                                                  *)
(***************************************************************************)
\* the byte width of the primitives the numeric switch reads for a type
Width(data_type) ==
    CASE data_type \in {"Int8", "UInt8"} -> 1
      [] data_type \in {"Int16", "UInt16"} -> 2
      [] data_type \in {"Int32", "UInt32", "Single"} -> 4
      [] data_type \in {"Int64", "UInt64", "Double"} -> 8

NumericTypes ==
    {"Int8", "UInt8", "Int16", "UInt16", "Int32", "UInt32", "Int64", "UInt64",
     "Single", "Double"}

\* be_X / le_X: the bit pattern of one primitive, most significant byte first
Primitive(bytes, endianness) == IF endianness = "Big" THEN bytes ELSE Reverse(bytes)

\* map!(count!(be_X or le_X, n), |data| NumericData::X(data)): n primitives
\* of w bytes
count_primitives(i, data_type, n, w, endianness) ==
    IF Len(i) < n * w THEN Incomplete
    ELSE Ok(Drop(i, n * w),
            [type |-> data_type,
             data |-> [k \in 1..n |->
                          Primitive(SubSeq(i, (k - 1) * w + 1, k * w), endianness)]])

\* switch!(value!(data_element_tag.data_type), ...): no arm for the other types
numeric_data(i, tag, endianness) ==
    IF tag.data_type \notin NumericTypes THEN Error("Switch", i)
    ELSE IF ~FitsNat(tag.data_byte_size) THEN Incomplete
    ELSE count_primitives(i, tag.data_type,
                          NatOf(tag.data_byte_size) \div Width(tag.data_type),
                          Width(tag.data_type), endianness)

parse_numeric_subelement(i, endianness) ==
    Then(parse_data_element_tag(i, endianness), LAMBDA data_element_tag :
    Then(numeric_data(data_element_tag.rest, data_element_tag.val, endianness),
         LAMBDA data :
    Then(take_u32(data.rest, data_element_tag.val.padding_byte_size), LAMBDA padding :
    Ok(padding.rest, data.val))))

\* map_res!(.., std::str::from_utf8): a recoverable error when it is not UTF-8
map_res_utf8(r, i) == IF Utf8Valid(r.val) THEN r ELSE Error("MapRes", i)

parse_array_name_subelement(i, endianness) ==
    Then(parse_data_element_tag(i, endianness), LAMBDA data_element_tag :
    Then(assert(data_element_tag.rest,
                /\ data_element_tag.val.data_type = "Int8"
                /\ data_element_tag.val.data_byte_size # U32Zero), LAMBDA a :
    Then(take_u32(a.rest, data_element_tag.val.data_byte_size), LAMBDA bytes :
    Then(map_res_utf8(bytes, a.rest), LAMBDA name :
    Then(take_u32(name.rest, data_element_tag.val.padding_byte_size), LAMBDA padding :
    Ok(padding.rest, name.val))))))

\* count!(i32!(endianness), n)
RECURSIVE count_i32(_, _, _)
count_i32(i, n, endianness) ==
    IF n = 0 THEN Ok(i, <<>>)
    ELSE Then(i32(i, endianness), LAMBDA x :
         Then(count_i32(x.rest, n - 1, endianness), LAMBDA more :
         Ok(more.rest, <<x.val>> \o more.val)))

\* count!(i32!(endianness), (data_byte_size / 4) as usize)
count_i32_of(i, byte_size, endianness) ==
    IF ~FitsNat(byte_size) THEN Incomplete
    ELSE count_i32(i, NatOf(byte_size) \div 4, endianness)

DimensionsTagOk(tag) ==
    /\ tag.data_type = "Int32"
    /\ ~U32Less(tag.data_byte_size, U32Of(8))
    /\ tag.data_byte_size[2] % 4 = 0

IndexTagOk(tag) == tag.data_type = "Int32" /\ tag.data_byte_size # U32Zero

\* a tag, the assertion on it, data_byte_size / 4 i32 values and the padding:
\* the dimensions, the row index and the column index share this shape and
\* differ by the assertion
Int32Array(i, endianness, dimensions) ==
    Then(parse_data_element_tag(i, endianness), LAMBDA data_element_tag :
    Then(assert(data_element_tag.rest,
                IF dimensions THEN DimensionsTagOk(data_element_tag.val)
                ELSE IndexTagOk(data_element_tag.val)), LAMBDA a :
    Then(count_i32_of(a.rest, data_element_tag.val.data_byte_size, endianness),
         LAMBDA values :
    Then(take_u32(values.rest, data_element_tag.val.padding_byte_size),
         LAMBDA padding :
    Ok(padding.rest, values.val)))))

parse_dimensions_array_subelement(i, endianness) == Int32Array(i, endianness, TRUE)

\* .iter().map(|&i| i as usize).collect()
IndexValues(r) ==
    Then(r, LAMBDA x : Ok(x.rest, [k \in 1..Len(x.val) |-> AsUsize(x.val[k])]))

parse_row_index_array_subelement(i, endianness) ==
    IndexValues(Int32Array(i, endianness, FALSE))

parse_column_index_array_subelement(i, endianness) ==
    IndexValues(Int32Array(i, endianness, FALSE))

Bit(word, mask) == (word \div mask) % 2 = 1

\* the ArrayFlags of a flags word, or the failure of ArrayType::from_u8
ArrayFlags(i, after, low, nzmax) ==
    IF low % 256 \notin 1..15 THEN Failure("Custom44", i)
    ELSE Ok(after,
            [complex |-> Bit(low, 2048),
             global |-> Bit(low, 1024),
             logical |-> Bit(low, 512),
             class |-> ArrayTypeName(low % 256),
             nzmax |-> nzmax])

parse_array_flags_subelement(i, endianness) ==
    Then(u32(i, endianness), LAMBDA tag_data_type :
    Then(u32(tag_data_type.rest, endianness), LAMBDA tag_data_len :
    Then(assert(tag_data_len.rest,
                tag_data_type.val = U32Of(6) /\ tag_data_len.val = U32Of(8)), LAMBDA a :
    Then(u32(a.rest, endianness), LAMBDA flags_and_class :
    Then(u32(flags_and_class.rest, endianness), LAMBDA nzmax :
    ArrayFlags(i, nzmax.rest, flags_and_class.val[2], nzmax.val))))))

parse_field_name_length_subelement(i, endianness) ==
    Then(parse_data_element_tag(i, endianness), LAMBDA data_element_tag :
    i32(data_element_tag.rest, endianness))

\* the index of the first null byte, 0 when there is none
FirstNull(i) ==
    IF \E k \in 1..Len(i) : i[k] = 0
    THEN CHOOSE k \in 1..Len(i) : i[k] = 0 /\ \A j \in 1..(k - 1) : i[j] # 0
    ELSE 0

\* take_till!(|i| i == 0): the bytes before the first null byte
take_till_null(i, z) ==
    IF z = 0 THEN Incomplete ELSE Ok(Drop(i, z - 1), Take(i, z - 1))

\* take!(length - name.len()), length the i32 that `as usize` casts: a
\* negative one is a skip no input satisfies, and a name longer than the
\* stride underflows the subtraction
skip_stride(i, length, name_len) ==
    IF length < 0 THEN Incomplete
    ELSE IF length < name_len THEN (IF overflow_checks THEN Panic ELSE Incomplete)
    ELSE take(i, length - name_len)

parse_field_name(i, length, endianness) ==
    Then(take_till_null(i, FirstNull(i)), LAMBDA bytes :
    Then(map_res_utf8(bytes, i), LAMBDA name :
    Then(skip_stride(name.rest, length, Len(name.val)), LAMBDA skipped :
    Ok(skipped.rest, name.val))))

(***************************************************************************)
(* The matrix parsers                                                      *)
(***************************************************************************)
NoneOpt == [some |-> FALSE]

Some(v) == [some |-> TRUE, v |-> v]

\* nom's cond!(c, child) with r the child's result on i: a recoverable error
\* of the child gives None with nothing consumed
cond(c, r, i) ==
    IF ~c THEN Ok(i, NoneOpt)
    ELSE IF IsOk(r) THEN Ok(r.rest, Some(r.val))
    ELSE IF r.st = "Error" THEN Ok(i, NoneOpt)
    ELSE r

parse_unsupported_data_element(i, endianness) == Ok(<<>>, [kind |-> "Unsupported"])

\* the size and type assertion on the real and imaginary parts of a numeric
\* matrix
NumericPartOk(part, n, array_data_type) ==
    /\ LenIs(Len(part.data), n)
    /\ numeric_data_types_are_compatible(array_data_type, part.type)

parse_numeric_matrix_subelements(i, endianness, flags) ==
    Then(parse_dimensions_array_subelement(i, endianness), LAMBDA dimensions :
    Then(parse_array_name_subelement(dimensions.rest, endianness), LAMBDA name :
    Then(parse_numeric_subelement(name.rest, endianness), LAMBDA real_part :
    Then(product(dimensions.val), LAMBDA n_required_elements :
    Then(assert(real_part.rest,
                NumericPartOk(real_part.val, n_required_elements.val,
                              numeric_data_type(flags.class))), LAMBDA a1 :
    Then(cond(flags.complex, parse_numeric_subelement(a1.rest, endianness), a1.rest),
         LAMBDA imag_part :
    Then(assert(imag_part.rest,
                imag_part.val.some =>
                    NumericPartOk(imag_part.val.v, n_required_elements.val,
                                  numeric_data_type(flags.class))), LAMBDA a2 :
    Ok(a2.rest,
       [kind |-> "NumericMatrix", flags |-> flags, dimensions |-> dimensions.val,
        name |-> name.val, real_part |-> real_part.val,
        imag_part |-> imag_part.val]))))))))

\* len == flags.nzmax, for a Vec length and the u32 nzmax as usize
SparsePartOk(part, nzmax) == FitsNat(nzmax) /\ Len(part.data) = NatOf(nzmax)

parse_sparse_matrix_subelements(i, endianness, flags) ==
    Then(parse_dimensions_array_subelement(i, endianness), LAMBDA dimensions :
    Then(parse_array_name_subelement(dimensions.rest, endianness), LAMBDA name :
    Then(parse_row_index_array_subelement(name.rest, endianness), LAMBDA row_index :
    Then(parse_column_index_array_subelement(row_index.rest, endianness),
         LAMBDA column_index :
    Then(parse_numeric_subelement(column_index.rest, endianness), LAMBDA real_part :
    Then(assert(real_part.rest, SparsePartOk(real_part.val, flags.nzmax)), LAMBDA a1 :
    Then(cond(flags.complex, parse_numeric_subelement(a1.rest, endianness), a1.rest),
         LAMBDA imag_part :
    Then(assert(imag_part.rest,
                imag_part.val.some => SparsePartOk(imag_part.val.v, flags.nzmax)),
         LAMBDA a2 :
    Ok(a2.rest,
       [kind |-> "SparseMatrix", flags |-> flags, dimensions |-> dimensions.val,
        name |-> name.val, row_index |-> row_index.val,
        column_index |-> column_index.val, real_part |-> real_part.val,
        imag_part |-> imag_part.val])))))))))

\* count!: a recoverable error of the child becomes count's own, at its input
count_error(x, i0) == IF x.st = "Error" THEN Error("Count", i0) ELSE x

\* count!(apply!(parse_field_name, length, endianness), n) from i0 on, n the i32
\* that `as usize` casts: a negative n is a count no input satisfies, and a
\* reader that then succeeds without consuming never ends
RECURSIVE count_field_names(_, _, _, _, _)
count_field_names(i0, i, length, n, endianness) ==
    IF n = 0 THEN Ok(i, <<>>)
    ELSE Then(count_error(parse_field_name(i, length, endianness), i0), LAMBDA x :
         IF n < 0 /\ x.rest = i THEN [st |-> "Diverge"]
         ELSE Then(count_field_names(i0, x.rest, length, IF n < 0 THEN n ELSE n - 1,
                                     endianness), LAMBDA more :
              Ok(more.rest, <<x.val>> \o more.val)))

RECURSIVE parse_matrix_data_element(_, _)
RECURSIVE parse_structure_matrix_subelements(_, _, _)
RECURSIVE count_fields(_, _, _, _)
RECURSIVE parse_next_data_element(_, _)
RECURSIVE parse_compressed_data_element(_, _)

\* count!(apply!(parse_matrix_data_element, endianness), n)
count_fields(i0, i, n, endianness) ==
    IF n = 0 THEN Ok(i, <<>>)
    ELSE Then(count_error(parse_matrix_data_element(i, endianness), i0), LAMBDA x :
         Then(count_fields(i0, x.rest, IF n < 0 THEN n ELSE n - 1, endianness),
              LAMBDA more :
         Ok(more.rest, <<x.val>> \o more.val)))

parse_structure_matrix_subelements(i, endianness, flags) ==
    Then(parse_dimensions_array_subelement(i, endianness), LAMBDA dimensions :
    Then(parse_array_name_subelement(dimensions.rest, endianness), LAMBDA name :
    Then(parse_field_name_length_subelement(name.rest, endianness),
         LAMBDA field_name_length :
    Then(product(dimensions.val), LAMBDA fields_nb :
    Then(count_field_names(field_name_length.rest, field_name_length.rest,
                           field_name_length.val, fields_nb.val, endianness),
         LAMBDA field_names :
    Then(count_fields(field_names.rest, field_names.rest, fields_nb.val, endianness),
         LAMBDA fields :
    Ok(fields.rest,
       [kind |-> "StructureMatrix", flags |-> flags,
        dimensions |-> dimensions.val, name |-> name.val,
        field_name_length |-> field_name_length.val,
        field_names |-> field_names.val, fields |-> fields.val])))))))

parse_matrix_data_element(i, endianness) ==
    Then(parse_array_flags_subelement(i, endianness), LAMBDA flags :
        CASE flags.val.class \in {"Cell", "Object", "Char"} ->
                 parse_unsupported_data_element(flags.rest, endianness)
          [] flags.val.class = "Struct" ->
                 parse_structure_matrix_subelements(flags.rest, endianness, flags.val)
          [] flags.val.class = "Sparse" ->
                 parse_sparse_matrix_subelements(flags.rest, endianness, flags.val)
          [] OTHER ->
                 parse_numeric_matrix_subelements(flags.rest, endianness, flags.val))

(***************************************************************************)
(* Decompression and the element reader                                    *)
(***************************************************************************)
\* The inflate of libflate, as an abstract function: a zlib stream is the two
\* header bytes 0x78 0x9C, the content with every byte complemented, and a
\* one-byte checksum of the content.
RECURSIVE ByteSum(_)
ByteSum(b) ==
    IF Len(b) = 0 THEN 0
    ELSE IF Len(b) = 1 THEN b[1]
    ELSE (ByteSum(Take(b, Len(b) \div 2)) + ByteSum(Drop(b, Len(b) \div 2))) % 256

Inflated(i, buf) ==
    IF i[Len(i)] # ByteSum(buf) THEN Failure("Custom42", i)
    ELSE [st |-> "Ok", val |-> buf]

Inflate(i) ==
    IF Len(i) < 2 \/ Take(i, 2) # <<120, 156>> THEN Failure("Custom41", i)
    ELSE IF Len(i) < 3 THEN Failure("Custom42", i)
    ELSE Inflated(i, [k \in 1..(Len(i) - 3) |-> 255 - i[k + 2]])

\* replace_err_slice(err, i)
replace_err_slice(e, i) ==
    IF e.st \in {"Error", "Failure"} THEN [e EXCEPT !.at = Len(i)] ELSE e

\* Ok((&[], data_element)), or the nested reader's error on the slice i
CompressedResult(r, i) ==
    IF IsOk(r) THEN Ok(<<>>, r.val) ELSE replace_err_slice(r, i)

parse_compressed_data_element(i, endianness) ==
    Then(Inflate(i), LAMBDA buf :
    CompressedResult(parse_next_data_element(buf.val, endianness), i))

\* complete!(child): Incomplete becomes a recoverable error
complete(r, i) == IF r.st = "Incomplete" THEN Error("Complete", i) ELSE r

\* the padding parse_next_data_element skips after an element
PaddingBytesAlways(tag) == tag.padding_byte_size

PaddingBytes(tag) ==
    IF tag.data_type = "Compressed" THEN U32Zero ELSE tag.padding_byte_size

\* opt!(complete!(take!(padding_bytes))): skipped when the bytes are there
opt_padding_unskipped(i, padding) == i

opt_padding(i, padding) == IF IsOk(padding) THEN padding.rest ELSE i

\* next_parser, applied to the declared bytes
next_parser(tag, bytes, endianness) ==
    CASE tag.data_type = "Matrix" -> parse_matrix_data_element(bytes, endianness)
      [] tag.data_type = "Compressed" -> parse_compressed_data_element(bytes, endianness)
      [] OTHER -> parse_unsupported_data_element(bytes, endianness)

parse_next_data_element(i, endianness) ==
    Then(parse_data_element_tag(i, endianness), LAMBDA data_element_tag :
    \* length_value!: the declared bytes, then the child on them, complete
    Then(take_u32(data_element_tag.rest, data_element_tag.val.data_byte_size),
         LAMBDA bytes :
    Then(complete(next_parser(data_element_tag.val, bytes.val, endianness), bytes.val),
         LAMBDA data_element :
    Ok(opt_padding(bytes.rest, take_u32(bytes.rest, PaddingBytes(data_element_tag.val))),
       data_element.val))))

(***************************************************************************)
(* parse_all, one step at a time                                           *)
(***************************************************************************)
Endianness(r) == IF header[r].is_little_endian THEN "Little" ELSE "Big"

tag_vars == <<tag_i, tag_endianness, tag_pc, tag_result>>

sub_vars == <<sub_i, sub_args, sub_pc, sub_result>>

\* header: parse_header >> endianness: value!(..)
HeaderParsed(r, h) ==
    IF IsOk(h)
    THEN /\ header' = [header EXCEPT ![r] = h.val]
         /\ rest' = [rest EXCEPT ![r] = h.rest]
         /\ pc' = [pc EXCEPT ![r] = "elements"]
         /\ err' = err
    ELSE /\ err' = [err EXCEPT ![r] = h]
         /\ pc' = [pc EXCEPT ![r] = "failed"]
         /\ UNCHANGED <<header, rest>>

parse_all_header(r) ==
    /\ pc[r] = "start"
    /\ HeaderParsed(r, parse_header(input[r]))
    /\ UNCHANGED <<overflow_checks, input, data_elements, file,
                   tag_vars, sub_vars>>

\* one turn of many0!(complete!(apply!(parse_next_data_element, endianness)))
NextElement(r) == complete(parse_next_data_element(rest[r], Endianness(r)), rest[r])

\* Ok((i, o)): the element is pushed.  (The reader consumes at least its tag,
\* so many0's guard against a child that consumes nothing never applies.)
Pushed(r, x) ==
    /\ IsOk(x)
    /\ data_elements' = [data_elements EXCEPT ![r] = Append(@, x.val)]
    /\ rest' = [rest EXCEPT ![r] = x.rest]

many0_push(r) ==
    /\ pc[r] = "elements"
    /\ Pushed(r, NextElement(r))
    /\ UNCHANGED <<overflow_checks, input, pc, header, err, file,
                   tag_vars, sub_vars>>

\* Err(Err::Error(_)): many0 ends and parse_all returns what was collected
many0_stop(r) ==
    /\ pc[r] = "elements"
    /\ NextElement(r).st = "Error"
    /\ pc' = [pc EXCEPT ![r] = "done"]
    /\ UNCHANGED <<overflow_checks, input, rest, header, data_elements, err, file,
                   tag_vars, sub_vars>>

Ended(r, x, sts, to) ==
    /\ x.st \in sts
    /\ err' = [err EXCEPT ![r] = x]
    /\ pc' = [pc EXCEPT ![r] = to]

\* Err(e): the failure is parse_all's result
many0_fail(r) ==
    /\ pc[r] = "elements"
    /\ Ended(r, NextElement(r), {"Failure"}, "failed")
    /\ UNCHANGED <<overflow_checks, input, rest, header, data_elements, file,
                   tag_vars, sub_vars>>

\* an overflow panic (or a count that never ends) inside the element reader:
\* parse_all does not return
parse_all_abort(r) ==
    /\ pc[r] = "elements"
    /\ Ended(r, NextElement(r), {"Panic", "Diverge"}, "aborted")
    /\ UNCHANGED <<overflow_checks, input, rest, header, data_elements, file,
                   tag_vars, sub_vars>>

Next ==
    \E r \in Runs :
        \/ parse_all_header(r)
        \/ many0_push(r)
        \/ many0_stop(r)
        \/ many0_fail(r)
        \/ parse_all_abort(r)

\* parse_data_element_tag applied to a slice of its own
ReadTag ==
    /\ tag_pc = "ready"
    /\ tag_result' = parse_data_element_tag(tag_i, tag_endianness)
    /\ tag_pc' = "read"
    /\ UNCHANGED <<overflow_checks, input, rest, pc, header, data_elements, err, file,
                   tag_i, tag_endianness, sub_vars>>

NextTag == ReadTag

(***************************************************************************)
(* Inputs: logical content and its encoding in a byte order                *)
(***************************************************************************)
\* An item is a primitive, given most significant byte first and written in
\* the file's byte order, or a run of raw bytes.
P(bytes) == [k |-> "p", b |-> bytes]

B(bytes) == [k |-> "b", b |-> bytes]

W(n) == P(Reverse(Pattern4(n)))

WHL(hi, lo) == P(<<hi \div 256, hi % 256, lo \div 256, lo % 256>>)

RECURSIVE Encode(_, _)
Encode(stream, endianness) ==
    IF stream = <<>> THEN <<>>
    ELSE LET x == Head(stream)
         IN  (IF x.k = "p" THEN Primitive(x.b, endianness) ELSE x.b)
             \o Encode(Tail(stream), endianness)

StreamLen(stream) == Len(Encode(stream, "Big"))

Zeros(n) == [k \in 1..n |-> 0]

TagL(t, n) == <<W(t), W(n)>>

TagS(t, n) == <<WHL(n, t)>>

\* the subelements of a matrix
FlagsOf(class, complex, nzmax) ==
    TagL(6, 8) \o <<W(class + (IF complex THEN 2048 ELSE 0)), W(nzmax)>>

Dims2(a, b) == TagL(5, 8) \o <<W(a), W(b)>>

NameA == TagS(1, 1) \o <<B(<<97, 0, 0, 0>>)>>

NameBad == TagS(1, 1) \o <<B(<<255, 0, 0, 0>>)>>

OneDouble(k) == P(<<64, k, 0, 0, 0, 0, 0, 1>>)

Doubles(n) == TagL(9, 8 * n) \o [k \in 1..n |-> OneDouble(k)]

Int16Small == TagS(3, 2) \o <<P(<<1, 2>>), B(<<0, 0>>)>>

UInt8Small == TagS(2, 1) \o <<B(<<7, 0, 0, 0>>)>>

\* the values of an index vector of n entries, in file order
Int32Values(n) == [k \in 1..n |-> k - 2]

Int32s(n) ==
    TagL(5, 4 * n) \o [k \in 1..n |-> W(Int32Values(n)[k])]
        \o <<B(Zeros((8 - ((4 * n) % 8)) % 8))>>

Utf8Sub == TagL(16, 8) \o <<B(<<104, 105, 0, 0, 0, 0, 0, 0>>)>>

Matrix(body) == TagL(14, StreamLen(body)) \o body

MatrixDeclared(n, body) == TagL(14, n) \o body

NumericBody(class, complex, a, b, real, imag) ==
    FlagsOf(class, complex, 0) \o Dims2(a, b) \o NameA \o real \o imag

SparseBody(complex, nzmax, real, imag) ==
    FlagsOf(5, complex, nzmax) \o Dims2(2, 2) \o NameA \o Int32s(2) \o Int32s(3)
        \o real \o imag

StructBody(a, b, length, names, fields) ==
    FlagsOf(2, FALSE, 0) \o Dims2(a, b) \o NameA \o TagS(5, 4) \o <<W(length)>>
        \o <<B(names)>> \o fields

\* The elements the files are made of: well-formed ones, and ones that are
\* truncated, mistyped or mis-sized.
Catalogue ==
    << \* 1: a real 1x2 Double matrix
       Matrix(NumericBody(6, FALSE, 1, 2, Doubles(2), <<>>)),
       \* 2: a complex 1x1 Int16 matrix, its parts behind compact tags
       Matrix(NumericBody(10, TRUE, 1, 1, Int16Small, UInt8Small)),
       \* 3: a complex 1x1 Double matrix whose second part is tagged as text
       Matrix(NumericBody(6, TRUE, 1, 1, Doubles(1), Utf8Sub)),
       \* 4: a 65536x65536 Double matrix with no data
       Matrix(NumericBody(6, FALSE, 65536, 65536, Doubles(0), <<>>)),
       \* 5: a (-1)x(-1) Double matrix with one value
       Matrix(NumericBody(6, FALSE, -1, -1, Doubles(1), <<>>)),
       \* 6: a real sparse matrix, nzmax 2
       Matrix(SparseBody(FALSE, 2, Doubles(2), <<>>)),
       \* 7: a complex sparse matrix, nzmax 1
       Matrix(SparseBody(TRUE, 1, Doubles(1), Doubles(1))),
       \* 8: a complex sparse matrix whose second part is tagged as text
       Matrix(SparseBody(TRUE, 1, Doubles(1), Utf8Sub)),
       \* 9: a 1x2 structure, stride 4, its fields two matrix bodies
       Matrix(StructBody(1, 2, 4, <<97, 98, 0, 0, 99, 0, 0, 0>>,
                         NumericBody(6, FALSE, 1, 1, Doubles(1), <<>>)
                             \o NumericBody(9, FALSE, 1, 1, UInt8Small, <<>>))),
       \* 10: a 65536x65536 structure with no field
       Matrix(StructBody(65536, 65536, 4, <<>>, <<>>)),
       \* 11: a 1x2 structure whose first field is a Cell
       Matrix(StructBody(1, 2, 4, <<97, 0, 0, 0, 98, 0, 0, 0>>,
                         FlagsOf(1, FALSE, 0)
                             \o NumericBody(6, FALSE, 1, 1, Doubles(1), <<>>))),
       \* 12: three UInt8 bytes at the top level, padded to 8
       TagL(2, 3) \o <<B(<<1, 2, 3, 0, 0, 0, 0, 0>>)>>,
       \* 13: a long tag of the unknown type 8
       TagL(8, 8) \o <<B(Zeros(8))>>,
       \* 14: a compact tag of the unknown type 11
       TagS(11, 2) \o <<B(<<1, 2, 0, 0>>)>>,
       \* 15: a matrix that declares 64 bytes and holds 16
       MatrixDeclared(64, FlagsOf(6, FALSE, 0)),
       \* 16: a matrix that declares 24 bytes, fewer than its subelements need
       MatrixDeclared(24, NumericBody(6, FALSE, 1, 2, Doubles(2), <<>>)),
       \* 17: a Char matrix
       Matrix(FlagsOf(4, FALSE, 0) \o Dims2(1, 1) \o NameA),
       \* 18: an Int32 matrix stored as Int32
       Matrix(NumericBody(12, FALSE, 1, 1, Int32s(1), <<>>)),
       \* 19: a Double matrix whose name is not UTF-8
       Matrix(FlagsOf(6, FALSE, 0) \o Dims2(1, 1) \o NameBad \o Doubles(1)),
       \* 20: a 1x2 Double matrix with one value
       Matrix(NumericBody(6, FALSE, 1, 2, Doubles(1), <<>>)),
       \* 21: the first word of a long tag of the unknown type 8, alone
       <<W(8)>>,
       \* 22: one UInt8 byte at the top level behind a compact tag, padded to 8
       UInt8Small >>

\* the number of top-level elements of a file
MaxElems == 2

ElemSeqs == UNION {[1..n -> 1..Len(Catalogue)] : n \in 0..MaxElems}

\* the 128 header bytes: the text, the subsystem data offset, the version and
\* the marker of the byte order
GoodHeader == [first |-> <<77, 65, 84, 76>>, version |-> 256, marker |-> "own"]

HeaderVariants ==
    [first : {<<77, 65, 84, 76>>, <<0, 0, 0, 0>>, <<77, 65, 84, 0>>, <<0, 65, 84, 76>>},
     version : {256, 512},
     marker : {"own", "other", "none"}]

Marker(h, endianness) ==
    CASE h.marker = "own" -> IF endianness = "Little" THEN <<73, 77>> ELSE <<77, 73>>
      [] h.marker = "other" -> IF endianness = "Little" THEN <<77, 73>> ELSE <<73, 77>>
      [] OTHER -> <<73, 73>>

HeaderStream(h, endianness) ==
    <<B(h.first), B([k \in 1..112 |-> 120]), B(Zeros(8)),
      P(<<h.version \div 256, h.version % 256>>), B(Marker(h, endianness))>>

RECURSIVE Concat(_)
Concat(ss) == IF ss = <<>> THEN <<>> ELSE Head(ss) \o Concat(Tail(ss))

ElemBytes(k, endianness) == Encode(Catalogue[k], endianness)

EncodeFile(f, endianness) ==
    Encode(HeaderStream(f.hdr, endianness), endianness)
        \o Concat([k \in 1..Len(f.elems) |-> ElemBytes(f.elems[k], endianness)])

Files ==
    {[hdr |-> GoodHeader, elems |-> s] : s \in ElemSeqs}
        \cup {[hdr |-> h, elems |-> s] : h \in HeaderVariants, s \in {<<>>, <<1>>}}

\* the inverse of Inflate
Deflate(bytes) ==
    <<120, 156>> \o [k \in 1..Len(bytes) |-> 255 - bytes[k]] \o <<ByteSum(bytes)>>

CompressedBytes(k, endianness) ==
    LET payload == Deflate(ElemBytes(k, endianness))
    IN  Encode(TagL(15, Len(payload)), endianness) \o payload

EncodeCompressedFile(f, endianness) ==
    Encode(HeaderStream(f.hdr, endianness), endianness)
        \o Concat([k \in 1..Len(f.elems) |-> CompressedBytes(f.elems[k], endianness)])

(***************************************************************************)
(* The specifications                                                      *)
(***************************************************************************)
InitRuns ==
    /\ overflow_checks \in BOOLEAN
    /\ rest = input
    /\ pc = [r \in Runs |-> "start"]
    /\ header = [r \in Runs |-> None]
    /\ data_elements = [r \in Runs |-> <<>>]
    /\ err = [r \in Runs |-> None]
    /\ tag_i = <<>>
    /\ tag_endianness = "Little"
    /\ tag_pc = "idle"
    /\ tag_result = None
    /\ sub_i = <<>>
    /\ sub_args = None
    /\ sub_pc = "idle"
    /\ sub_result = None

\* parse_all on the little-endian (run 1) and on the big-endian (run 2)
\* encoding of a file
Init ==
    /\ file \in Files
    /\ input = [r \in Runs |-> EncodeFile(file, IF r = 1 THEN "Little" ELSE "Big")]
    /\ InitRuns

Spec == Init /\ [][Next]_vars

\* parse_all on a file (run 1) and on the file that stores each of its
\* elements wrapped in a Compressed element (run 2), in one byte order
InitCompressed ==
    /\ file \in [hdr : {GoodHeader}, elems : ElemSeqs, endianness : Endiannesses]
    /\ input = [r \in Runs |->
                   IF r = 1 THEN EncodeFile(file, file.endianness)
                   ELSE EncodeCompressedFile(file, file.endianness)]
    /\ InitRuns

SpecCompressed == InitCompressed /\ [][Next]_vars

\* The first words and length words the tag reader is applied to
TagTypeCodes == 0..19

LongLengths ==
    {<<0, 0>>, <<0, 1>>, <<0, 4>>, <<0, 7>>, <<0, 8>>, <<0, 9>>, <<0, 65535>>, <<1, 0>>,
     <<32767, 65535>>, <<32768, 0>>, <<65535, 65528>>, <<65535, 65529>>,
     <<65535, 65535>>}

CompactLengths == {<<0, 1>>, <<0, 2>>, <<0, 3>>, <<0, 4>>, <<0, 5>>, <<0, 65535>>}

Tails == {<<>>, <<1, 2, 3, 4, 5, 6, 7, 8>>}

TagWords(f) ==
    IF f.form = "long"
    THEN <<WHL(0, f.type), WHL(f.length[1], f.length[2])>>
    ELSE <<WHL(f.length[2], f.type)>>

TagBytes(f) == Encode(TagWords(f), f.endianness) \o f.tail

TagInputs ==
    [form : {"long"}, type : TagTypeCodes, length : LongLengths,
     endianness : Endiannesses, tail : Tails]
        \cup [form : {"small"}, type : TagTypeCodes, length : CompactLengths,
              endianness : Endiannesses, tail : Tails]

\* parse_data_element_tag on the encoding of a tag, followed or not by data
InitTag ==
    /\ overflow_checks \in BOOLEAN
    /\ file \in TagInputs
    /\ tag_i = TagBytes(file)
    /\ tag_endianness = file.endianness
    /\ tag_pc = "ready"
    /\ tag_result = None
    /\ sub_i = <<>>
    /\ sub_args = None
    /\ sub_pc = "idle"
    /\ sub_result = None
    /\ input = [r \in Runs |-> <<>>]
    /\ rest = input
    /\ pc = [r \in Runs |-> "idle"]
    /\ header = [r \in Runs |-> None]
    /\ data_elements = [r \in Runs |-> <<>>]
    /\ err = [r \in Runs |-> None]

SpecTag == InitTag /\ [][NextTag]_vars

(***************************************************************************)
(* The subelement readers, each applied to a slice of its own              *)
(***************************************************************************)
\* the reader's result is kept
SubRead(result) ==
    /\ sub_result' = result
    /\ sub_pc' = "read"
    /\ UNCHANGED <<overflow_checks, input, rest, pc, header, data_elements, err, file,
                   tag_vars, sub_i, sub_args>>

read_array_flags ==
    /\ sub_pc = "ready"
    /\ sub_args.reader = "array_flags"
    /\ SubRead(parse_array_flags_subelement(sub_i, sub_args.endianness))

read_dimensions ==
    /\ sub_pc = "ready"
    /\ sub_args.reader = "dimensions"
    /\ SubRead(parse_dimensions_array_subelement(sub_i, sub_args.endianness))

read_array_name ==
    /\ sub_pc = "ready"
    /\ sub_args.reader = "array_name"
    /\ SubRead(parse_array_name_subelement(sub_i, sub_args.endianness))

read_field_name_length ==
    /\ sub_pc = "ready"
    /\ sub_args.reader = "field_name_length"
    /\ SubRead(parse_field_name_length_subelement(sub_i, sub_args.endianness))

read_numeric ==
    /\ sub_pc = "ready"
    /\ sub_args.reader = "numeric"
    /\ SubRead(parse_numeric_subelement(sub_i, sub_args.endianness))

read_row_index ==
    /\ sub_pc = "ready"
    /\ sub_args.reader = "row_index"
    /\ SubRead(parse_row_index_array_subelement(sub_i, sub_args.endianness))

read_column_index ==
    /\ sub_pc = "ready"
    /\ sub_args.reader = "column_index"
    /\ SubRead(parse_column_index_array_subelement(sub_i, sub_args.endianness))

read_field_name ==
    /\ sub_pc = "ready"
    /\ sub_args.reader = "field_name"
    /\ SubRead(parse_field_name(sub_i, sub_args.length, sub_args.endianness))

read_numeric_matrix ==
    /\ sub_pc = "ready"
    /\ sub_args.reader = "numeric_matrix"
    /\ SubRead(parse_numeric_matrix_subelements(sub_i, sub_args.endianness,
                                                 sub_args.flags))

NextSub ==
    \/ read_array_flags
    \/ read_dimensions
    \/ read_array_name
    \/ read_field_name_length
    \/ read_numeric
    \/ read_row_index
    \/ read_column_index
    \/ read_field_name
    \/ read_numeric_matrix

\* the bytes that follow a subelement in its slice
FollowingData == <<9, 8, 7, 6, 5, 4, 3, 2>>

\* A call: the reader, the content of its slice, and its other arguments
SubCall(reader, stream, length, flags, about) ==
    [reader |-> reader, stream |-> stream, length |-> length, flags |-> flags,
     about |-> about]

NoFlags ==
    [complex |-> FALSE, global |-> FALSE, logical |-> FALSE, class |-> "Double",
     nzmax |-> U32Zero]

NumericTypeCodes == {1, 2, 3, 4, 5, 6, 7, 9, 12, 13}

NumericClassCodes == 6..15

\* the sizes a long tag of a numeric subelement declares
DeclaredSizes == {0, 1, 2, 3, 4, 6, 8, 12, 16}

CeilTo(n, m) == ((n + m - 1) \div m) * m

\* a numeric subelement: the tag, n bytes, and the padding that aligns them
NumericSub(t, n, form) ==
    IF form = "long"
    THEN TagL(t, n) \o <<B([k \in 1..CeilTo(n, 8) |-> IF k <= n THEN k ELSE 0])>>
    ELSE TagS(t, n) \o <<B([k \in 1..4 |-> IF k <= n THEN k ELSE 0])>>

NumericCalls ==
    {SubCall("numeric", NumericSub(t, n, "long") \o <<B(FollowingData)>>, 0, NoFlags,
             [type |-> t, size |-> n, form |-> "long"]) :
        t \in NumericTypeCodes \cup {16}, n \in DeclaredSizes}
        \cup {SubCall("numeric", NumericSub(t, n, "small") \o <<B(FollowingData)>>, 0,
                      NoFlags, [type |-> t, size |-> n, form |-> "small"]) :
                 t \in NumericTypeCodes \cup {16}, n \in 1..4}

FlagsCalls ==
    {SubCall("array_flags", FlagsOf(c, x, z) \o <<B(FollowingData)>>, 0, NoFlags,
             [form |-> "long"]) :
        c \in {2, 5, 6, 12}, x \in BOOLEAN, z \in {0, 3}}

DimensionsCalls ==
    {SubCall("dimensions", d \o <<B(FollowingData)>>, 0, NoFlags, [form |-> "long"]) :
        d \in {Dims2(1, 2), Dims2(65536, 65536),
               TagL(5, 12) \o <<W(1), W(2), W(3), B(Zeros(4))>>}}

NameCalls ==
    {SubCall("array_name", NameA \o <<B(FollowingData)>>, 0, NoFlags,
             [form |-> "small"]),
     SubCall("array_name",
             TagL(1, 5) \o <<B(<<104, 101, 108, 108, 111, 0, 0, 0>>), B(FollowingData)>>,
             0, NoFlags, [form |-> "long"])}

FieldNameLengthCalls ==
    {SubCall("field_name_length", TagS(5, 4) \o <<W(4), B(FollowingData)>>, 0, NoFlags,
             [form |-> "small"]),
     SubCall("field_name_length",
             TagL(5, 4) \o <<W(4), B(Zeros(4)), B(FollowingData)>>, 0, NoFlags,
             [form |-> "long"])}

IndexCalls ==
    {SubCall(reader, Int32s(n) \o <<B(FollowingData)>>, 0, NoFlags, [form |-> "long"]) :
        reader \in {"row_index", "column_index"}, n \in 1..3}
        \cup {SubCall(reader, TagS(5, 4) \o <<W(1), B(FollowingData)>>, 0, NoFlags,
                      [form |-> "small"]) :
                 reader \in {"row_index", "column_index"}}

\* the strides of the field names, and two slots of names over the letter a
Strides == {2, 4}

FieldNameCalls ==
    {SubCall("field_name", <<B(slots)>>, length, NoFlags, [form |-> "none"]) :
        length \in Strides, slots \in [1..8 -> {0, 97}]}

\* a 1x2 matrix of a numeric class, its real part stored in a numeric type
NumericMatrixCalls ==
    {SubCall("numeric_matrix",
             Dims2(1, 2) \o NameA \o NumericSub(t, 2 * Width(DataTypeName(t)), "long"),
             0, [NoFlags EXCEPT !.class = ArrayTypeName(c)],
             [class |-> c, type |-> t]) :
        c \in NumericClassCodes, t \in NumericTypeCodes}

SubCalls ==
    NumericCalls \cup FlagsCalls \cup DimensionsCalls \cup NameCalls
        \cup FieldNameLengthCalls \cup IndexCalls \cup FieldNameCalls
        \cup NumericMatrixCalls

\* a subelement reader on the encoding of a call's content in a byte order
InitSub ==
    /\ overflow_checks \in BOOLEAN
    /\ file \in [call : SubCalls, endianness : Endiannesses]
    /\ sub_i = Encode(file.call.stream, file.endianness)
    /\ sub_args = [reader |-> file.call.reader, endianness |-> file.endianness,
                   length |-> file.call.length, flags |-> file.call.flags]
    /\ sub_pc = "ready"
    /\ sub_result = None
    /\ tag_i = <<>>
    /\ tag_endianness = "Little"
    /\ tag_pc = "idle"
    /\ tag_result = None
    /\ input = [r \in Runs |-> <<>>]
    /\ rest = input
    /\ pc = [r \in Runs |-> "idle"]
    /\ header = [r \in Runs |-> None]
    /\ data_elements = [r \in Runs |-> <<>>]
    /\ err = [r \in Runs |-> None]

SpecSub == InitSub /\ [][NextSub]_vars

(***************************************************************************)
(* Properties of parse_all's result                                        *)
(***************************************************************************)
Range(f) == {f[k] : k \in DOMAIN f}

\* the elements a run has returned, with the fields of its structures
Returned(r) ==
    Range(data_elements[r])
        \cup UNION {Range(d.fields) :
                       d \in {x \in Range(data_elements[r]) : x.kind = "StructureMatrix"}}

Abs(n) == IF n < 0 THEN -n ELSE n

\* whether the product of the extents, taken in the integers, is the count n
RECURSIVE MathProductIs(_, _, _)
MathProductIs(dims, n, negative) ==
    IF dims = <<>> THEN n = 1 /\ ~negative
    ELSE IF Head(dims) = 0 THEN n = 0
    ELSE /\ n % Abs(Head(dims)) = 0
         /\ MathProductIs(Tail(dims), n \div Abs(Head(dims)),
                          negative # (Head(dims) < 0))

\* C1: parse_all never returns a partial result: when it returns success,
\* every element after the header has been decoded and nothing of the buffer
\* is left undecoded.
C1_NoPartialResult == \A r \in Runs : pc[r] = "done" => rest[r] = <<>>

\* C2: in every NumericMatrix returned, the real part has as many elements as
\* the product of the extents taken in the integers, and when flags.complex is
\* set the imaginary part is there with as many elements as the real part.
C2_NumericCardinality ==
    \A r \in Runs : \A d \in Returned(r) :
        d.kind = "NumericMatrix" =>
            /\ MathProductIs(d.dimensions, Len(d.real_part.data), FALSE)
            /\ d.flags.complex =>
                   /\ d.imag_part.some
                   /\ Len(d.imag_part.v.data) = Len(d.real_part.data)

\* C3: in every SparseMatrix returned, the real part has flags.nzmax elements,
\* the imaginary part is there exactly when flags.complex is set, and then has
\* flags.nzmax elements too; the row-index and column-shift vectors hold the
\* file's values in the file's order.
C3_SparseCardinality ==
    \A r \in Runs : \A d \in Returned(r) :
        d.kind = "SparseMatrix" =>
            /\ U32Of(Len(d.real_part.data)) = d.flags.nzmax
            /\ d.imag_part.some <=> d.flags.complex
            /\ d.imag_part.some => U32Of(Len(d.imag_part.v.data)) = d.flags.nzmax
            /\ d.row_index = [k \in 1..2 |-> AsUsize(Int32Values(2)[k])]
            /\ d.column_index = [k \in 1..3 |-> AsUsize(Int32Values(3)[k])]

\* C4: in every StructureMatrix returned, there are as many field names as
\* fields, and as many as the product of the extents taken in the integers.
C4_StructureCardinality ==
    \A r \in Runs : \A d \in Returned(r) :
        d.kind = "StructureMatrix" =>
            /\ Len(d.field_names) = Len(d.fields)
            /\ MathProductIs(d.dimensions, Len(d.fields), FALSE)

(***************************************************************************)
(* Properties of the tag reader                                            *)
(***************************************************************************)
\* C5: the padding of every tag parse_data_element_tag returns is in 0..7 for
\* the long form and in 0..3 for the compact form, and computing it never
\* leaves u32 (no overflow panic).
C5_PaddingRange ==
    tag_pc = "read" =>
        /\ tag_result.st # "Panic"
        /\ IsOk(tag_result) =>
               /\ tag_result.val.padding_byte_size[1] = 0
               /\ tag_result.val.padding_byte_size[2]
                      \in (IF tag_result.val.form = "long" THEN 0..7 ELSE 0..3)

\* C6: the long-form encoding of a known type t and a length n, and the
\* compact encoding for n in 1..4, decode to t and n, with 8 and 4 bytes
\* consumed and what follows the tag left unread; the form read is compact
\* exactly when the upper 16 bits of the first word are not zero.
C6_TagRoundTrip ==
    tag_pc = "read" =>
        /\ IsOk(tag_result) => tag_result.val.form = file.form
        /\ (/\ file.type \in DataTypeCodes
            /\ file.form = "small" => file.length[2] \in 1..4) =>
               /\ IsOk(tag_result)
               /\ tag_result.val.data_type = DataTypeName(file.type)
               /\ tag_result.val.data_byte_size = file.length
               /\ tag_result.rest = file.tail

\* a whole tag whose type value is not a known code starts the slice
UnknownTagAt(i, word) ==
    /\ IsOk(word)
    /\ word.val[2] \notin DataTypeCodes
    /\ word.val[1] = 0 => Len(i) >= 8

\* C7: on a tag whose type value is not a known code, parse_data_element_tag
\* returns a failure and no tag, and parse_all, when that tag is the next
\* top-level one, returns that failure: it neither pushes an element nor ends
\* the list with success.
C7_UnknownTypeFails ==
    [][\A r \in Runs :
          (pc[r] = "elements"
              /\ UnknownTagAt(rest[r], u32(rest[r], Endianness(r)))) =>
              /\ parse_data_element_tag(rest[r], Endianness(r)).st = "Failure"
              /\ NextElement(r).st = "Failure"
              /\ pc'[r] \in {"elements", "failed"}
              /\ data_elements'[r] = data_elements[r]
              /\ pc'[r] = "failed" => err'[r].st = "Failure"]_vars

\* parse_all has failed on an unknown type code after a first element
C7_Witness ==
    \E r \in Runs :
        /\ pc[r] = "failed"
        /\ err[r].st = "Failure"
        /\ err[r].code = "Custom46"
        /\ Len(data_elements[r]) = 1

ZeroStart(i) == Len(i) >= 4 /\ Take(i, 4) = <<0, 0, 0, 0>>

\* C8: on a buffer whose first four bytes are zero, whatever follows,
\* parse_header returns an error positioned at the start of the buffer:
\* nothing has been consumed, and parse_all fails with it.
C8_ZeroHeaderRejected ==
    \A r \in Runs :
        ZeroStart(input[r]) =>
            /\ parse_header(input[r]).st = "Error"
            /\ parse_header(input[r]).at = Len(input[r])
            /\ pc[r] \in {"start", "failed"}
            /\ rest[r] = input[r]
            /\ pc[r] = "failed" => err[r] = parse_header(input[r])

\* parse_all has failed on a header that starts with four zero bytes and
\* carries a valid version and order marker
C8_Witness ==
    \E r \in Runs :
        /\ ZeroStart(input[r])
        /\ file.hdr.version = 256
        /\ file.hdr.marker = "own"
        /\ pc[r] = "failed"

(***************************************************************************)
(* Decompression equivalence and endianness symmetry                       *)
(***************************************************************************)
Terminal(r) == pc[r] \in {"done", "failed", "aborted"}

FollowingBytes == <<1, 2, 3, 4, 5, 6, 7, 8>>

\* a Compressed element that wraps the bytes the plain reader decodes as an
\* element decodes to the same element, and leaves what follows it unread
SameWhenCompressed(plain, compressed) ==
    IsOk(plain) =>
        /\ IsOk(compressed)
        /\ compressed.val = plain.val
        /\ compressed.rest = FollowingBytes

\* C9: every element of a file that parse_next_data_element decodes from its
\* plain bytes is decoded, the same, from a Compressed element whose payload
\* inflates to those bytes, with no padding consumed after it (the reader is
\* a function of the bytes: it is applied before parse_all starts); and the
\* file of the wrapped elements yields the list of the plain file.
C9_DecompressionEquivalence ==
    /\ \A k \in (IF pc[1] = "start" THEN Range(file.elems) ELSE {}) :
           SameWhenCompressed(
               parse_next_data_element(ElemBytes(k, file.endianness), file.endianness),
               parse_next_data_element(
                   CompressedBytes(k, file.endianness) \o FollowingBytes,
                   file.endianness))
    /\ (Terminal(1) /\ Terminal(2)
           /\ pc[1] = "done" /\ Len(data_elements[1]) = Len(file.elems)) =>
           /\ pc[2] = "done"
           /\ data_elements[2] = data_elements[1]

\* both files have been read to their end, and hold a numeric matrix and a
\* structure
C9_Witness ==
    /\ pc[1] = "done"
    /\ pc[2] = "done"
    /\ Len(data_elements[2]) = 2
    /\ data_elements[2][1].kind = "NumericMatrix"
    /\ data_elements[2][2].kind = "StructureMatrix"
    /\ rest[2] = <<>>

\* C10: parse_all on the little-endian encoding of a file, marked "IM", and
\* on its big-endian encoding, marked "MI", end alike: both fail, or both
\* succeed with the same list of elements.
C10_EndiannessSymmetry ==
    (file.hdr.marker = "own" /\ Terminal(1) /\ Terminal(2)) =>
        /\ pc[1] = pc[2]
        /\ data_elements[1] = data_elements[2]

\* both encodings have been read to their end, and hold a complex Int16
\* matrix behind compact tags and a sparse matrix
C10_Witness ==
    /\ file.hdr.marker = "own"
    /\ pc[1] = "done"
    /\ pc[2] = "done"
    /\ Len(data_elements[1]) = 2
    /\ data_elements[1][1].kind = "NumericMatrix"
    /\ data_elements[1][1].real_part.type = "Int16"
    /\ data_elements[1][2].kind = "SparseMatrix"
    /\ header[1].is_little_endian
    /\ ~header[2].is_little_endian

(***************************************************************************)
(* The element list and the elements that are not decoded                  *)
(***************************************************************************)
\* the byte order of the encoding a run reads
EncodingOf(r) == IF r = 1 THEN "Little" ELSE "Big"

\* the k-th element of the file, decoded on its own
DecodedAlone(k, r) ==
    parse_next_data_element(ElemBytes(file.elems[k], EncodingOf(r)), EncodingOf(r))

\* the elements of the catalogue whose tag type is known and is neither
\* Matrix nor Compressed
TopLevelUnsupported == {12, 22}

\* C11: on a file of n elements that each decode, parse_all returns n
\* elements, the k-th the decoding of the k-th element of the file; an element
\* whose tag type is neither Matrix nor Compressed gives one Unsupported, and
\* its tag, its declared bytes and its padding are skipped: the element after
\* it is decoded as it is on its own.
C11_ElementsInFileOrder ==
    \A r \in Runs :
        (/\ Terminal(r)
         /\ file.hdr = GoodHeader
         /\ \A k \in 1..Len(file.elems) : IsOk(DecodedAlone(k, r))) =>
            /\ pc[r] = "done"
            /\ rest[r] = <<>>
            /\ data_elements[r] = [k \in 1..Len(file.elems) |-> DecodedAlone(k, r).val]
            /\ \A k \in 1..Len(file.elems) :
                   file.elems[k] \in TopLevelUnsupported =>
                       data_elements[r][k].kind = "Unsupported"

\* parse_all has returned an Unsupported for a top-level UInt8 element and the
\* sparse matrix that follows it
C11_Witness ==
    \E r \in Runs :
        /\ pc[r] = "done"
        /\ Len(file.elems) = 2
        /\ file.elems[1] \in TopLevelUnsupported
        /\ Len(data_elements[r]) = 2
        /\ data_elements[r][1].kind = "Unsupported"
        /\ data_elements[r][2].kind = "SparseMatrix"

(***************************************************************************)
(* Properties of the subelement readers                                    *)
(***************************************************************************)
SubRan(reader) == sub_pc = "read" /\ sub_args.reader = reader

\* the bytes the reader has consumed
SubConsumed == Len(sub_i) - Len(sub_result.rest)

\* C12: a matrix of a numeric class whose real part holds product(dimensions)
\* elements stored in the class's own primitive type is accepted by numeric
\* matrix assembly, for each of the ten classes (Int32 stored as Int32 among
\* them).
C12_OwnTypeAccepted ==
    (/\ SubRan("numeric_matrix")
     /\ ArrayTypeName(file.call.about.class) = DataTypeName(file.call.about.type)) =>
        /\ IsOk(sub_result)
        /\ sub_result.val.kind = "NumericMatrix"
        /\ sub_result.val.real_part.type = DataTypeName(file.call.about.type)
        /\ Len(sub_result.val.real_part.data) = 2

\* C13: parse_numeric_subelement fails whenever the declared byte length of
\* the tag is not a multiple of the width of the tag's numeric type; it
\* returns no NumericData of a truncated count.
C13_LengthDivisible ==
    (/\ SubRan("numeric")
     /\ file.call.about.type \in NumericTypeCodes
     /\ file.call.about.size % Width(DataTypeName(file.call.about.type)) # 0) =>
        sub_result.st \in {"Error", "Failure"}

SubelementReaders ==
    {"array_flags", "dimensions", "array_name", "field_name_length", "numeric",
     "row_index", "column_index"}

\* C14: every subelement reader that succeeds has consumed, tag, content and
\* padding together, a multiple of 8 bytes, behind a long and behind a compact
\* tag.
C14_ConsumedAligned ==
    (/\ sub_pc = "read"
     /\ sub_args.reader \in SubelementReaders
     /\ IsOk(sub_result)) =>
        SubConsumed % 8 = 0

\* the bytes of the slot before its first null byte
NameOfSlot(slot) ==
    IF FirstNull(slot) = 0 THEN slot ELSE Take(slot, FirstNull(slot) - 1)

\* C16: parse_field_name with stride L, when it succeeds, has consumed L bytes
\* and returns the bytes of the slot before its first null byte, at most L of
\* them; on every input the skip L - len(name) is computed without underflow.
C16_FieldNameStride ==
    SubRan("field_name") =>
        /\ sub_result.st # "Panic"
        /\ IsOk(sub_result) =>
               /\ SubConsumed = sub_args.length
               /\ Len(sub_result.val) <= sub_args.length
               /\ sub_result.val = NameOfSlot(Take(sub_i, sub_args.length))

\* the elements of the catalogue that are a structure with a field of class
\* Cell, Object or Char, followed by a field of class Double
StructsWithUnsupportedField == {11}

\* C15: a field of class Cell, Object or Char decodes to Unsupported and the
\* fields after it are decoded from the bytes that follow: the structure is
\* returned with all its fields, and the parse neither fails nor stops there.
C15_UnsupportedFieldSkipped ==
    \A r \in Runs :
        (/\ Terminal(r)
         /\ file.hdr = GoodHeader
         /\ Len(file.elems) >= 1
         /\ file.elems[1] \in StructsWithUnsupportedField) =>
            /\ pc[r] = "done"
            /\ Len(data_elements[r]) = Len(file.elems)
            /\ data_elements[r][1].kind = "StructureMatrix"
            /\ Len(data_elements[r][1].fields) = 2
            /\ data_elements[r][1].fields[1].kind = "Unsupported"
            /\ data_elements[r][1].fields[2].kind = "NumericMatrix"

====
